---- MODULE Spec2Model ----
(***************************************************************************)
(* Model of aiophyn's MQTT bridge (src/aiophyn/mqtt.py): the Timer, the    *)
(* MQTTClient session (connect, transport callbacks, reconnect loop,       *)
(* subscription bookkeeping, handler registry and message dispatch).       *)
(* The paho transport client is the environment: it owns the socket,       *)
(* hands out message ids and delivers the callbacks.                       *)
(***************************************************************************)
EXTENDS Integers, Sequences, FiniteSets, TLC

\* ---- bounds -------------------------------------------------------------
MaxMid == 4          \* message ids the transport hands out in one run
MaxJobs == 2         \* timer jobs alive at once, where the timer is examined
MaxKeepalive == 1    \* timer jobs alive at once, elsewhere
MaxLoops == 2        \* reconnect loop tasks alive at once

\* ---- value sets ---------------------------------------------------------
Topics == {"A", "B"}
NoMid == 0           \* Python None as returned by client.subscribe when there is no socket
Mids == 1..MaxMid
Responses == {"wss_ok", "bad_shape", "request_failed"}
Categories == {"connect", "disconnect", "update"}
Targets == {"h1", "h2"}
NoDelivery == [topic |-> <<>>, payload |-> "", scheduled |-> <<>>, raised |-> "none"]

VARIABLES
    pending_acks,    \* MQTTClient.pending_acks : mid -> topic
    topics,          \* MQTTClient.topics : list of confirmed topics
    connect_evt,     \* MQTTClient.connect_evt : is the Event set
    connect_task,    \* MQTTClient.connect_task : "None" or "task"
    disconnect_evt,  \* MQTTClient.disconnect_evt : "None", "armed" (unset Event) or "set"
    host,            \* MQTTClient.host : "None" or the resolved host
    loops,           \* the _do_reconnect tasks alive, each with its position
    conn,            \* position of the caller of connect()
    timer_task,      \* Timer._task
    jobs,            \* Timer._job tasks alive: sleeping / running the callback
    sock,            \* transport: "closed" or "open"
    connack,         \* transport: a CONNECT was sent and its acknowledgment is due
    last_mid,        \* transport: last message id handed out
    disc_req,        \* transport: client.disconnect() was called on the open socket
    registered_write,\* transport: the client asked for write-readiness (its buffer is not drained)
    helper,          \* AIOHelper with the event loop: reader and writer registered,
                     \* the task misc_task refers to, earlier tasks left running
    fresh,           \* observation: endpoint resolved since the last transport attempt
    acked,           \* observation: last connect-ack / disconnect delivered by the transport
    cancelled,       \* observation: Timer.cancel was called in the delay window, no start since
    handlers,        \* MQTTClient._handlers : category -> list of targets
    delivery         \* observation: the last _on_message call, what it scheduled and raised

vars == <<pending_acks, topics, connect_evt, connect_task, disconnect_evt, host,
          loops, conn, timer_task, jobs, sock, connack, last_mid, disc_req,
          fresh, acked, cancelled, handlers, delivery, registered_write, helper>>

sessionVars == <<pending_acks, topics, connect_evt, connect_task, disconnect_evt, host>>
transportVars == <<sock, connack, last_mid, disc_req>>
msgVars == <<handlers, delivery>>
helperVars == <<registered_write, helper>>

\* ---- helpers ------------------------------------------------------------
Range(s) == {s[i] : i \in DOMAIN s}

RemoveAt(s, i) == [j \in 1..(Len(s) - 1) |-> IF j < i THEN s[j] ELSE s[j + 1]]

Count(s, x) == Cardinality({i \in DOMAIN s : s[i] = x})

\* all orderings of a finite set, as sequences without repetition
Perms(S) == {s \in [1..Cardinality(S) -> S] : Range(s) = S}

\* MQTTClient.is_connected
is_connected == connect_evt

\* paho Client.subscribe as seen by the caller: the message id it returns
ClientSubscribeMid(lm) == IF sock = "open" THEN lm + 1 ELSE NoMid

\* dict assignment pending_acks[mid] = topic
DictSet(d, k, v) == [x \in DOMAIN d \cup {k} |-> IF x = k THEN v ELSE d[x]]

\* del pending_acks[mid]
DictDel(d, k) == [x \in DOMAIN d \ {k} |-> d[x]]

\* get_mqtt_info applied to what the control plane answered: "ok" when the
\* url matches wss://<host><path>, else the exception that leaves the call
get_mqtt_info(resp) ==
    CASE resp = "wss_ok" -> "ok"
      [] resp = "bad_shape" -> "Exception"
      [] resp = "request_failed" -> "UnboundLocalError"

\* ---- initial state: MQTTClient.__init__ and Timer.__init__ ---------------
Init ==
    /\ pending_acks = <<>>
    /\ topics = <<>>
    /\ connect_evt = FALSE
    /\ connect_task = "None"
    /\ disconnect_evt = "None"
    /\ host = "None"
    /\ loops = <<>>
    /\ conn = "idle"
    /\ timer_task = "None"
    /\ jobs = [sleeping |-> 0, running |-> 0]
    /\ sock = "closed"
    /\ connack = FALSE
    /\ last_mid = 0
    /\ disc_req = FALSE
    /\ fresh = FALSE
    /\ acked = "none"
    /\ cancelled = FALSE
    /\ handlers = [c \in Categories |-> <<>>]
    /\ delivery = NoDelivery
    /\ registered_write = FALSE
    /\ helper = [reader |-> FALSE, writer |-> FALSE, misc_task |-> "None", orphans |-> 0]

\* ---- Timer (mqtt.py 66-87) ------------------------------------------------
\* Timer.start: create a _job task sleeping for the timeout
TimerStart(j) == [j EXCEPT !.sleeping = @ + 1]

\* Timer.cancel: cancel the task Timer._task refers to, when there is one
TimerCancelJobs(j) ==
    IF timer_task # "None" /\ j.sleeping > 0
    THEN [j EXCEPT !.sleeping = @ - 1]
    ELSE j

\* the application calls Timer.cancel on the reconnect timer
TimerCancel ==
    /\ jobs' = TimerCancelJobs(jobs)
    /\ cancelled' = (jobs.sleeping > 0)
    /\ UNCHANGED <<helperVars, msgVars, sessionVars, transportVars, loops, conn, timer_task, fresh, acked>>

\* Timer._job: the sleep is over, the callback (_process_reconnect) begins
\* and suspends in get_mqtt_info
TimerFire ==
    /\ jobs.sleeping > 0
    /\ jobs' = [jobs EXCEPT !.sleeping = @ - 1, !.running = @ + 1]
    /\ UNCHANGED <<helperVars, msgVars, sessionVars, transportVars, loops, conn, timer_task, fresh, acked, cancelled>>

\* paho Client.disconnect: DISCONNECT goes out on the socket, when there is one
ClientDisconnect == sock = "open"

\* _process_reconnect that asks for the disconnect in a finally clause
ProcessReconnect_DisconnectAlways(resp) ==
    /\ jobs.running > 0
    /\ jobs' = [jobs EXCEPT !.running = @ - 1]
    /\ IF get_mqtt_info(resp) = "ok"
       THEN /\ host' = "host"
            /\ fresh' = TRUE
       ELSE /\ UNCHANGED <<host, fresh>>
    /\ disc_req' = ClientDisconnect
    /\ UNCHANGED <<helperVars, msgVars, pending_acks, topics, connect_evt, connect_task, disconnect_evt,
                   sock, connack, last_mid, loops, conn, timer_task, acked, cancelled>>

\* MQTTClient._process_reconnect after get_mqtt_info answered: set the
\* websocket options and ask the transport to disconnect, or end by the
\* resolver's exception
ProcessReconnect(resp) ==
    /\ jobs.running > 0
    /\ jobs' = [jobs EXCEPT !.running = @ - 1]
    /\ IF get_mqtt_info(resp) = "ok"
       THEN /\ host' = "host"
            /\ fresh' = TRUE
            /\ disc_req' = ClientDisconnect
       ELSE /\ UNCHANGED <<host, fresh, disc_req>>
    /\ UNCHANGED <<helperVars, msgVars, pending_acks, topics, connect_evt, connect_task, disconnect_evt,
                   sock, connack, last_mid, loops, conn, timer_task, acked, cancelled>>

\* ---- AIOHelper (mqtt.py 18-64) ---------------------------------------------
\* a task misc_task may refer to: created, suspended in its sleep, cancelled,
\* or returned
MiscAlive == {"new", "sleeping"}

\* _on_socket_open: add_reader, and misc_task = create_task(misc_loop()); a
\* task the attribute referred to keeps running when nobody cancelled it
on_socket_open(h) ==
    [h EXCEPT !.reader = TRUE,
              !.misc_task = "new",
              !.orphans = IF h.misc_task \in MiscAlive THEN @ + 1 ELSE @]

\* _on_socket_close without misc_task.cancel()
on_socket_close_NoCancel(h) == [h EXCEPT !.reader = FALSE]

\* _on_socket_close: remove_reader, and cancel the task misc_task refers to
on_socket_close(h) ==
    [h EXCEPT !.reader = FALSE,
              !.misc_task = IF @ \in MiscAlive THEN "cancelled" ELSE @]

\* _on_socket_register_write: add_writer
on_socket_register_write(h) == [h EXCEPT !.writer = TRUE]

\* _on_socket_unregister_write: remove_writer
on_socket_unregister_write(h) == [h EXCEPT !.writer = FALSE]

\* paho Client._sock_close: with a socket, the write interest it registered
\* is unregistered, then the close is notified
SockClose(h) ==
    IF sock = "open"
    THEN on_socket_close(IF registered_write THEN on_socket_unregister_write(h) ELSE h)
    ELSE h

\* paho Client.reconnect (client.connect ends in it): close the socket there
\* is, then create the new one and notify its opening, or raise
SockReopen(h, ok) == IF ok THEN on_socket_open(SockClose(h)) ELSE SockClose(h)

\* the client's write buffer is no longer empty
RegisterWrite ==
    /\ sock = "open"
    /\ ~registered_write
    /\ registered_write' = TRUE
    /\ helper' = on_socket_register_write(helper)
    /\ UNCHANGED <<msgVars, sessionVars, transportVars, loops, conn, timer_task, jobs, fresh, acked, cancelled>>

\* the client's write buffer is drained
UnregisterWrite ==
    /\ sock = "open"
    /\ registered_write
    /\ registered_write' = FALSE
    /\ helper' = on_socket_unregister_write(helper)
    /\ UNCHANGED <<msgVars, sessionVars, transportVars, loops, conn, timer_task, jobs, fresh, acked, cancelled>>

\* a step of misc_loop: loop_misc() is called; on success the task sleeps
\* one second, otherwise it returns (loop_misc reports no connection when
\* the client has no socket)
MiscRun ==
    /\ helper.misc_task \in MiscAlive
    /\ helper' = [helper EXCEPT !.misc_task = IF sock = "open" THEN "sleeping" ELSE "done"]
    /\ UNCHANGED <<registered_write, msgVars, sessionVars, transportVars, loops, conn, timer_task, jobs,
                   fresh, acked, cancelled>>

\* ---- MQTTClient.connect (mqtt.py 123-135) ---------------------------------
\* the application calls connect(); it suspends in get_mqtt_info
Connect ==
    /\ conn \in {"idle", "failed"}
    /\ conn' = "resolving"
    /\ UNCHANGED <<helperVars, msgVars, sessionVars, transportVars, loops, timer_task, jobs, fresh, acked, cancelled>>

\* get_mqtt_info answered: configure the transport and offload client.connect,
\* or surface the resolver's exception
ConnectResolved(resp) ==
    /\ conn = "resolving"
    /\ IF get_mqtt_info(resp) = "ok"
       THEN /\ host' = "host"
            /\ fresh' = TRUE
            /\ conn' = "connecting"
       ELSE /\ conn' = "failed"
            /\ UNCHANGED <<host, fresh>>
    /\ UNCHANGED <<helperVars, msgVars, pending_acks, topics, connect_evt, connect_task, disconnect_evt,
                   transportVars, loops, timer_task, jobs, acked, cancelled>>

\* the executor ran client.connect: the socket is open and CONNECT is sent,
\* or the call raised
ConnectAttempt(ok) ==
    /\ conn = "connecting"
    /\ IF ok
       THEN /\ sock' = "open"
            /\ connack' = TRUE
            /\ conn' = "returned"
       ELSE /\ sock' = "closed"
            /\ connack' = FALSE
            /\ conn' = "failed"
    /\ fresh' = FALSE
    /\ disc_req' = FALSE
    /\ registered_write' = FALSE
    /\ helper' = SockReopen(helper, ok)
    /\ UNCHANGED <<msgVars, sessionVars, last_mid, loops, timer_task, jobs, acked, cancelled>>

\* ---- MQTTClient.subscribe (mqtt.py 154-157) -------------------------------
SubscribeOne(pa, lm, topic) ==
    LET mid == ClientSubscribeMid(lm)
    IN [pa |-> DictSet(pa, mid, topic),
        lm |-> IF mid = NoMid THEN lm ELSE mid]

Subscribe(topic) ==
    /\ ClientSubscribeMid(last_mid) <= MaxMid
    /\ LET r == SubscribeOne(pending_acks, last_mid, topic)
       IN /\ pending_acks' = r.pa
          /\ last_mid' = r.lm
    /\ UNCHANGED <<helperVars, msgVars, topics, connect_evt, connect_task, disconnect_evt, host, sock, connack,
                   disc_req, loops, conn, timer_task, jobs, fresh, acked, cancelled>>

\* ---- MQTTClient._on_subscribe (mqtt.py 255-268) ---------------------------
\* _on_subscribe that forgets del self.pending_acks[mid]
Acknowledge_KeepPending(pa, ts, mid) ==
    IF mid \in DOMAIN pa
    THEN [pa |-> pa, ts |-> Append(ts, pa[mid])]
    ELSE [pa |-> pa, ts |-> ts]

\* _on_subscribe that rebuilds the confirmed list from the acknowledged topic
Acknowledge_Replace(pa, ts, mid) ==
    IF mid \in DOMAIN pa
    THEN [pa |-> DictDel(pa, mid), ts |-> <<pa[mid]>>]
    ELSE [pa |-> pa, ts |-> ts]

\* the body of _on_subscribe: the new pending map and confirmed list
Acknowledge(pa, ts, mid) ==
    IF mid \in DOMAIN pa
    THEN [pa |-> DictDel(pa, mid), ts |-> Append(ts, pa[mid])]
    ELSE [pa |-> pa, ts |-> ts]

OnSubscribe(mid) ==
    /\ sock = "open"
    /\ LET r == Acknowledge(pending_acks, topics, mid)
       IN /\ pending_acks' = r.pa
          /\ topics' = r.ts
    /\ UNCHANGED <<helperVars, msgVars, connect_evt, connect_task, disconnect_evt, host, transportVars,
                   loops, conn, timer_task, jobs, fresh, acked, cancelled>>

\* ---- MQTTClient._on_connect (mqtt.py 160-177) -----------------------------
\* Event.set: every task waiting on the event is made runnable
WakeWaiters(ls) ==
    [i \in DOMAIN ls |-> IF ls[i].pc = "wait_evt" THEN [ls[i] EXCEPT !.pc = "woken"] ELSE ls[i]]

\* _on_connect without the test of reason_code
OnConnect_AnyCode(reason_code, cap) ==
    /\ sock = "open"
    /\ connack
    /\ connack' = FALSE
    /\ jobs.sleeping + jobs.running < cap
    /\ jobs' = TimerStart(jobs)
    /\ cancelled' = FALSE
    /\ connect_evt' = TRUE
    /\ loops' = WakeWaiters(loops)
    /\ acked' = "connack_ok"
    /\ UNCHANGED <<helperVars, msgVars, pending_acks, topics, connect_task, disconnect_evt, host,
                   sock, last_mid, disc_req, conn, timer_task, fresh>>

\* cap bounds the timer jobs alive
OnConnect(reason_code, cap) ==
    /\ sock = "open"
    /\ connack
    /\ connack' = FALSE
    /\ IF reason_code = 0
       THEN /\ jobs.sleeping + jobs.running < cap
            /\ jobs' = TimerStart(jobs)
            /\ cancelled' = FALSE
            /\ connect_evt' = TRUE
            /\ loops' = WakeWaiters(loops)
            /\ acked' = "connack_ok"
       ELSE UNCHANGED <<jobs, cancelled, connect_evt, loops, acked>>
    /\ UNCHANGED <<helperVars, msgVars, pending_acks, topics, connect_task, disconnect_evt, host,
                   sock, last_mid, disc_req, conn, timer_task, fresh>>

\* ---- MQTTClient._on_disconnect (mqtt.py 179-196) --------------------------
\* a new _do_reconnect(True) task, not yet run
NewLoop == [pc |-> "start", resub |-> <<>>, sent |-> <<>>, atStart |-> Range(topics)]

\* _on_disconnect without the test of connect_task
DisconnectBranch_NoInFlightCheck ==
    IF disconnect_evt # "None"
    THEN [devt |-> "set", task |-> connect_task, ls |-> loops]
    ELSE IF is_connected
         THEN [devt |-> disconnect_evt, task |-> "task", ls |-> Append(loops, NewLoop)]
         ELSE [devt |-> disconnect_evt, task |-> connect_task, ls |-> loops]

\* _on_disconnect with "if" in place of "elif": the drop branch runs although
\* the disconnect signal exists
DisconnectBranch_SignalIgnored ==
    LET devt == IF disconnect_evt # "None" THEN "set" ELSE disconnect_evt
    IN IF is_connected /\ connect_task = "None"
       THEN [devt |-> devt, task |-> "task", ls |-> Append(loops, NewLoop)]
       ELSE [devt |-> devt, task |-> connect_task, ls |-> loops]

\* the branch of _on_disconnect that may start the reconnect loop:
\* the new values of disconnect_evt, connect_task and loops
DisconnectBranch ==
    IF disconnect_evt # "None"
    THEN [devt |-> "set", task |-> connect_task, ls |-> loops]
    ELSE IF is_connected /\ connect_task = "None"
         THEN [devt |-> disconnect_evt, task |-> "task", ls |-> Append(loops, NewLoop)]
         ELSE [devt |-> disconnect_evt, task |-> connect_task, ls |-> loops]

\* connect_evt.clear() indented into the drop branch
DisconnectClear_OnlyOnDrop == IF disconnect_evt # "None" THEN connect_evt ELSE FALSE

\* the value of connect_evt when _on_disconnect returns
DisconnectClear == FALSE

\* delivered when the socket closes (a read or write failed, DISCONNECT went
\* out, or loop_misc found the ping unanswered), behind the socket-close
\* notification; the transport may repeat the notification of a closure
OnDisconnect ==
    /\ sock = "open" \/ acked \in {"drop_up", "drop_down"}
    /\ Len(DisconnectBranch.ls) <= MaxLoops
    /\ sock' = "closed"
    /\ connack' = FALSE
    /\ disc_req' = FALSE
    /\ disconnect_evt' = DisconnectBranch.devt
    /\ connect_task' = DisconnectBranch.task
    /\ loops' = DisconnectBranch.ls
    /\ connect_evt' = DisconnectClear
    /\ acked' = IF sock = "closed" THEN acked
                 ELSE IF is_connected THEN "drop_up" ELSE "drop_down"
    /\ registered_write' = FALSE
    /\ helper' = SockClose(helper)
    /\ UNCHANGED <<msgVars, pending_acks, topics, host, last_mid, conn, timer_task, jobs,
                   fresh, cancelled>>

\* ---- user-initiated disconnect -------------------------------------------
\* pre-arm the disconnect-signal handle and ask the transport to disconnect
UserDisconnect ==
    /\ disconnect_evt = "None"
    /\ disconnect_evt' = "armed"
    /\ UNCHANGED <<helperVars, msgVars, pending_acks, topics, connect_evt, connect_task, host, transportVars,
                   loops, conn, timer_task, jobs, fresh, acked, cancelled>>

\* ---- MQTTClient._do_reconnect (mqtt.py 206-235) ---------------------------
SetPc(i, p) == [loops EXCEPT ![i].pc = p]

\* list(self.topics), without the set
ListOfSet_NoDedup(ts) == {ts}

\* list(set(self.topics)): the lists it may return (set order is arbitrary)
ListOfSet(ts) == Perms(Range(ts))

\* first step of the task: first is True, so no sleep; client.reconnect is
\* handed to the executor
LoopStart(i) ==
    /\ loops[i].pc = "start"
    /\ loops' = SetPc(i, "reconnect")
    /\ UNCHANGED <<helperVars, msgVars, sessionVars, transportVars, conn, timer_task, jobs, fresh, acked, cancelled>>

\* asyncio.sleep(2.) is over; client.reconnect is handed to the executor
LoopBackoff(i) ==
    /\ loops[i].pc = "backoff"
    /\ loops' = SetPc(i, "reconnect")
    /\ UNCHANGED <<helperVars, msgVars, sessionVars, transportVars, conn, timer_task, jobs, fresh, acked, cancelled>>

\* the executor ran client.reconnect: a new socket with CONNECT sent, or the
\* call raised
ReconnectAttempt(i, ok) ==
    /\ loops[i].pc = "reconnect"
    /\ IF ok
       THEN /\ sock' = "open"
            /\ connack' = TRUE
            /\ loops' = SetPc(i, "reconnected")
       ELSE /\ sock' = "closed"
            /\ connack' = FALSE
            /\ loops' = SetPc(i, "raised")
    /\ fresh' = FALSE
    /\ disc_req' = FALSE
    /\ registered_write' = FALSE
    /\ helper' = SockReopen(helper, ok)
    /\ UNCHANGED <<msgVars, sessionVars, last_mid, conn, timer_task, jobs, acked, cancelled>>

\* except Exception: remember the error, continue: sleep before the next attempt
LoopRetry(i) ==
    /\ loops[i].pc = "raised"
    /\ loops' = SetPc(i, "backoff")
    /\ UNCHANGED <<helperVars, msgVars, sessionVars, transportVars, conn, timer_task, jobs, fresh, acked, cancelled>>

\* connect_task = None moved before the gather
Resubscribe_ClearEarly(i, l) ==
    IF l = <<>>
    THEN /\ loops' = RemoveAt(loops, i)
         /\ connect_task' = "None"
    ELSE /\ loops' = [loops EXCEPT ![i].pc = "gather", ![i].resub = l]
         /\ connect_task' = "None"

\* the loop past connect_evt.wait(): snapshot the topics and gather the
\* subscribe coroutines; with no topic gather is done at once, the loop
\* breaks and clears connect_task
Resubscribe(i, l) ==
    IF l = <<>>
    THEN /\ loops' = RemoveAt(loops, i)
         /\ connect_task' = "None"
    ELSE /\ loops' = [loops EXCEPT ![i].pc = "gather", ![i].resub = l]
         /\ UNCHANGED connect_task

\* the executor future is done: await connect_evt.wait()
LoopReconnected(i) ==
    /\ loops[i].pc = "reconnected"
    /\ IF connect_evt
       THEN \E l \in ListOfSet(topics) : Resubscribe(i, l)
       ELSE /\ loops' = SetPc(i, "wait_evt")
            /\ UNCHANGED connect_task
    /\ UNCHANGED <<helperVars, msgVars, pending_acks, topics, connect_evt, disconnect_evt, host, transportVars,
                   conn, timer_task, jobs, fresh, acked, cancelled>>

\* the waiter of connect_evt runs again
LoopWoken(i) ==
    /\ loops[i].pc = "woken"
    /\ \E l \in ListOfSet(topics) : Resubscribe(i, l)
    /\ UNCHANGED <<helperVars, msgVars, pending_acks, topics, connect_evt, disconnect_evt, host, transportVars,
                   conn, timer_task, jobs, fresh, acked, cancelled>>

\* the subscribe coroutines of the gather run, in order
RECURSIVE SubscribeAll(_, _, _)
SubscribeAll(pa, lm, l) ==
    IF l = <<>>
    THEN [pa |-> pa, lm |-> lm]
    ELSE LET r == SubscribeOne(pa, lm, Head(l))
         IN SubscribeAll(r.pa, r.lm, Tail(l))

LoopGather(i) ==
    /\ loops[i].pc = "gather"
    /\ LET r == SubscribeAll(pending_acks, last_mid, loops[i].resub)
       IN /\ r.lm <= MaxMid
          /\ pending_acks' = r.pa
          /\ last_mid' = r.lm
    /\ loops' = [loops EXCEPT ![i].pc = "gathered", ![i].sent = loops[i].resub]
    /\ UNCHANGED <<helperVars, msgVars, topics, connect_evt, connect_task, disconnect_evt, host, sock, connack,
                   disc_req, conn, timer_task, jobs, fresh, acked, cancelled>>

\* gather is done: break, connect_task = None, the task ends
LoopFinish(i) ==
    /\ loops[i].pc = "gathered"
    /\ loops' = RemoveAt(loops, i)
    /\ connect_task' = "None"
    /\ UNCHANGED <<helperVars, msgVars, pending_acks, topics, connect_evt, disconnect_evt, host, transportVars,
                   conn, timer_task, jobs, fresh, acked, cancelled>>

\* ---- the session ----------------------------------------------------------
Next ==
    \/ Connect
    \/ \E resp \in Responses : ConnectResolved(resp)
    \/ \E ok \in BOOLEAN : ConnectAttempt(ok)
    \/ \E rc \in {0, 5} : OnConnect(rc, MaxKeepalive)
    \/ OnDisconnect
    \/ \E t \in Topics : Subscribe(t)
    \/ \E m \in Mids : OnSubscribe(m)
    \/ \E i \in DOMAIN loops : LoopStart(i)
    \/ \E i \in DOMAIN loops : LoopBackoff(i)
    \/ \E i \in DOMAIN loops, ok \in BOOLEAN : ReconnectAttempt(i, ok)
    \/ \E i \in DOMAIN loops : LoopRetry(i)
    \/ \E i \in DOMAIN loops : LoopReconnected(i)
    \/ \E i \in DOMAIN loops : LoopWoken(i)
    \/ \E i \in DOMAIN loops : LoopGather(i)
    \/ \E i \in DOMAIN loops : LoopFinish(i)
    \/ TimerFire
    \/ \E resp \in Responses : ProcessReconnect(resp)

Spec == Init /\ [][Next]_vars

\* ---- the reconnect timer with its owner -----------------------------------
\* The session with no subscription made (so the loop has nothing to gather)
\* and an application that also calls Timer.cancel.
NextTimer ==
    \/ Connect
    \/ \E resp \in Responses : ConnectResolved(resp)
    \/ \E ok \in BOOLEAN : ConnectAttempt(ok)
    \/ \E rc \in {0, 5} : OnConnect(rc, MaxJobs)
    \/ OnDisconnect
    \/ \E i \in DOMAIN loops : LoopStart(i)
    \/ \E i \in DOMAIN loops : LoopBackoff(i)
    \/ \E i \in DOMAIN loops, ok \in BOOLEAN : ReconnectAttempt(i, ok)
    \/ \E i \in DOMAIN loops : LoopRetry(i)
    \/ \E i \in DOMAIN loops : LoopReconnected(i)
    \/ \E i \in DOMAIN loops : LoopWoken(i)
    \/ TimerFire
    \/ \E resp \in Responses : ProcessReconnect(resp)
    \/ TimerCancel

SpecTimer == Init /\ [][NextTimer]_vars

\* ---- cancellation of the reconnect task -----------------------------------
\* "except asyncio.CancelledError" that goes on with the next round
CancelLoop_Swallowed(ls, i) ==
    IF ls[i].pc = "start"
    THEN RemoveAt(ls, i)
    ELSE [ls EXCEPT ![i].pc = "backoff"]

\* Task.cancel() on a _do_reconnect task: CancelledError is thrown at the
\* await the task is suspended in (or into its first step) and every handler
\* re-raises it, so the task ends; gather cancels the subscribe coroutines
\* that have not run. A client.reconnect already running in the executor
\* thread cannot be interrupted: the call is abandoned and finishes alone.
CancelLoop(ls, i) ==
    IF ls[i].pc = "reconnect"
    THEN [ls EXCEPT ![i].pc = "abandoned"]
    ELSE RemoveAt(ls, i)

\* the owner of the task (the application, or the event loop shutting down)
\* cancels it
LoopCancel(i) ==
    /\ loops[i].pc # "abandoned"
    /\ loops' = CancelLoop(loops, i)
    /\ UNCHANGED <<helperVars, msgVars, sessionVars, transportVars, conn, timer_task, jobs, fresh, acked, cancelled>>

\* the executor thread finishes the abandoned client.reconnect; nobody
\* awaits its result
AbandonedReconnect(i, ok) ==
    /\ loops[i].pc = "abandoned"
    /\ IF ok
       THEN /\ sock' = "open"
            /\ connack' = TRUE
       ELSE /\ sock' = "closed"
            /\ connack' = FALSE
    /\ loops' = RemoveAt(loops, i)
    /\ fresh' = FALSE
    /\ disc_req' = FALSE
    /\ registered_write' = FALSE
    /\ helper' = SockReopen(helper, ok)
    /\ UNCHANGED <<msgVars, sessionVars, last_mid, conn, timer_task, jobs, acked, cancelled>>

\* The session with one topic and an owner that may cancel the reconnect task.
NextCancel ==
    \/ Connect
    \/ \E resp \in Responses : ConnectResolved(resp)
    \/ \E ok \in BOOLEAN : ConnectAttempt(ok)
    \/ \E rc \in {0, 5} : OnConnect(rc, MaxKeepalive)
    \/ OnDisconnect
    \/ Subscribe("A")
    \/ \E m \in Mids : OnSubscribe(m)
    \/ \E i \in DOMAIN loops : LoopStart(i)
    \/ \E i \in DOMAIN loops : LoopBackoff(i)
    \/ \E i \in DOMAIN loops, ok \in BOOLEAN : ReconnectAttempt(i, ok)
    \/ \E i \in DOMAIN loops : LoopRetry(i)
    \/ \E i \in DOMAIN loops : LoopReconnected(i)
    \/ \E i \in DOMAIN loops : LoopWoken(i)
    \/ \E i \in DOMAIN loops : LoopGather(i)
    \/ \E i \in DOMAIN loops : LoopFinish(i)
    \/ \E i \in DOMAIN loops : LoopCancel(i)
    \/ \E i \in DOMAIN loops, ok \in BOOLEAN : AbandonedReconnect(i, ok)
    \/ TimerFire
    \/ \E resp \in Responses : ProcessReconnect(resp)

SpecCancel == Init /\ [][NextCancel]_vars

\* ---- the reconnect loop under the event loop's scheduling -------------------
\* a step of a _do_reconnect task: the event loop runs every task that can
\* run, asyncio.sleep(2.) ends and the executor finishes client.reconnect
LoopStep ==
    \E i \in DOMAIN loops :
        \/ LoopStart(i)
        \/ LoopBackoff(i)
        \/ \E ok \in BOOLEAN : ReconnectAttempt(i, ok)
        \/ LoopRetry(i)
        \/ LoopReconnected(i)
        \/ LoopWoken(i)

\* the transport and the application are free to do nothing more
SpecLoopFair == Init /\ [][NextTimer]_vars /\ WF_vars(LoopStep)

\* ---- the session with the scheduler adapter at work -------------------------
\* The session with no subscription made, the client's write buffer filling
\* and draining, and the housekeeping task taking its steps.
NextHelper ==
    \/ Connect
    \/ \E resp \in Responses : ConnectResolved(resp)
    \/ \E ok \in BOOLEAN : ConnectAttempt(ok)
    \/ \E rc \in {0, 5} : OnConnect(rc, MaxKeepalive)
    \/ OnDisconnect
    \/ \E i \in DOMAIN loops : LoopStart(i)
    \/ \E i \in DOMAIN loops : LoopBackoff(i)
    \/ \E i \in DOMAIN loops, ok \in BOOLEAN : ReconnectAttempt(i, ok)
    \/ \E i \in DOMAIN loops : LoopRetry(i)
    \/ \E i \in DOMAIN loops : LoopReconnected(i)
    \/ \E i \in DOMAIN loops : LoopWoken(i)
    \/ TimerFire
    \/ \E resp \in Responses : ProcessReconnect(resp)
    \/ RegisterWrite
    \/ UnregisterWrite
    \/ MiscRun

SpecHelper == Init /\ [][NextHelper]_vars

\* ---- the session with a user-initiated disconnect -------------------------
\* The session with no subscription made, and an application that disconnects.
NextDisconnect ==
    \/ Connect
    \/ \E resp \in Responses : ConnectResolved(resp)
    \/ \E ok \in BOOLEAN : ConnectAttempt(ok)
    \/ \E rc \in {0, 5} : OnConnect(rc, MaxKeepalive)
    \/ OnDisconnect
    \/ UserDisconnect
    \/ \E i \in DOMAIN loops : LoopStart(i)
    \/ \E i \in DOMAIN loops : LoopBackoff(i)
    \/ \E i \in DOMAIN loops, ok \in BOOLEAN : ReconnectAttempt(i, ok)
    \/ \E i \in DOMAIN loops : LoopRetry(i)
    \/ \E i \in DOMAIN loops : LoopReconnected(i)
    \/ \E i \in DOMAIN loops : LoopWoken(i)
    \/ TimerFire
    \/ \E resp \in Responses : ProcessReconnect(resp)

SpecDisconnect == Init /\ [][NextDisconnect]_vars

\* ---- MQTTClient.add_event_handler (mqtt.py 115-121) -----------------------
\* add_event_handler without the test "target in self._handlers[type]"
add_event_handler_NoDupCheck(hs, type, target) ==
    IF type \notin DOMAIN hs
    THEN hs
    ELSE [hs EXCEPT ![type] = Append(@, target)]

add_event_handler(hs, type, target) ==
    IF type \notin DOMAIN hs
    THEN hs
    ELSE IF target \in Range(hs[type])
         THEN hs
         ELSE [hs EXCEPT ![type] = Append(@, target)]

AddEventHandler(type, target) ==
    /\ handlers' = add_event_handler(handlers, type, target)
    /\ UNCHANGED <<helperVars, sessionVars, transportVars, loops, conn, timer_task, jobs,
                   fresh, acked, cancelled, delivery>>

\* ---- MQTTClient._on_message (mqtt.py 237-253) -----------------------------
\* inbound payloads (bytes) and topics (as their '/'-separated segments)
Payloads == {"{\"pressure\": 42}", "[]", "not json", "bytes ff fe"}
MsgTopics == {<<"prd", "app_subscriptions", "dev123">>,
              <<"prd", "app_subscriptions", "dev123", "x">>,
              <<"prd", "other", "dev123">>,
              <<"prd", "app_subscriptions">>}

\* bytes.decode(): the text, or UnicodeDecodeError
Decodes(payload) == payload # "bytes ff fe"

\* json.loads: the decoded value, or JSONDecodeError
JsonValid(msg) == msg \in {"{\"pressure\": 42}", "[]"}
JsonLoads(msg) ==
    CASE msg = "{\"pressure\": 42}" -> [pressure |-> 42]
      [] msg = "[]" -> <<>>

\* message.topic.startswith("prd/app_subscriptions/")
StartsWithPrefix(topic) ==
    Len(topic) >= 3 /\ topic[1] = "prd" /\ topic[2] = "app_subscriptions"

\* the third segment of any topic that has one, without the prefix test
DeviceId_NoPrefixTest(topic) == IF Len(topic) >= 3 THEN topic[3] ELSE "None"

\* device_id = message.topic.split('/')[2], or None
DeviceId(topic) == IF StartsWithPrefix(topic) THEN topic[3] ELSE "None"

\* the callback: what it schedules and the exception that leaves it
on_message(hs, topic, payload) ==
    IF ~Decodes(payload)
    THEN [topic |-> topic, payload |-> payload, scheduled |-> <<>>,
          raised |-> "UnicodeDecodeError"]
    ELSE IF JsonValid(payload)
         THEN [topic |-> topic, payload |-> payload,
               scheduled |-> [k \in DOMAIN hs["update"] |->
                                 <<hs["update"][k], DeviceId(topic), JsonLoads(payload)>>],
               raised |-> "none"]
         ELSE \* data was never bound: the first handler call reads it
              [topic |-> topic, payload |-> payload, scheduled |-> <<>>,
               raised |-> IF hs["update"] = <<>> THEN "none" ELSE "UnboundLocalError"]

OnMessage(topic, payload) ==
    /\ delivery' = on_message(handlers, topic, payload)
    /\ UNCHANGED <<helperVars, sessionVars, transportVars, loops, conn, timer_task, jobs,
                   fresh, acked, cancelled, handlers>>

NextMsg ==
    \/ \E type \in Categories \cup {"error"}, target \in Targets : AddEventHandler(type, target)
    \/ \E topic \in MsgTopics, payload \in Payloads : OnMessage(topic, payload)

SpecMsg == Init /\ [][NextMsg]_vars

\* ==== properties ==============================================================

Malformed(payload) == ~Decodes(payload) \/ ~JsonValid(payload)

\* C1: at most one reconnect loop (_do_reconnect task) is in flight, whatever
\* disconnect notifications arrive.
C1_AtMostOneReconnectLoop == Len(loops) <= 1

\* a drop arrived while connected and while a reconnect loop was in flight
C1_Witness ==
    /\ Len(loops) = 1
    /\ loops[1].pc \in {"woken", "gather", "gathered"}
    /\ acked = "drop_up"
    /\ connect_task = "task"

\* C2: a disconnect notification that finds the disconnect-signal handle sets
\* the handle and starts no reconnect loop, connected or not.
C2_UserDisconnectNoReconnect ==
    [][(OnDisconnect /\ disconnect_evt # "None")
         => (disconnect_evt' = "set" /\ loops' = loops /\ connect_task' = connect_task)]_vars

\* the notification arrived while connected with the handle armed: the handle
\* is set and there is no reconnect loop
C2_Witness ==
    /\ disconnect_evt = "set"
    /\ acked = "drop_up"
    /\ loops = <<>>
    /\ connect_task = "None"

\* C3: a reconnect cycle that reaches the end of its resubscription issued
\* exactly one subscribe request (one call of client.subscribe) for every
\* topic that was confirmed when the loop started, however often the topic
\* occurs in the confirmed list, and the
\* acknowledgment of any pending request for such a topic leaves the topic in
\* the confirmed list.
C3_ResubscribedOnce ==
    \A i \in DOMAIN loops :
        loops[i].pc = "gathered" =>
            \A T \in loops[i].atStart :
                /\ Count(loops[i].sent, T) = 1
                /\ \A m \in DOMAIN pending_acks :
                       pending_acks[m] = T =>
                           T \in Range(Acknowledge(pending_acks, topics, m).ts)

\* a cycle resubscribed a topic that earlier acknowledgments had put in the
\* confirmed list more than once, over an open socket
C3_Witness ==
    \E i \in DOMAIN loops :
        /\ loops[i].pc = "gathered"
        /\ \E T \in loops[i].atStart : Count(topics, T) >= 2
        /\ sock = "open"
        /\ connect_evt

\* C4: connect_task is cleared only by a loop whose transport reconnect
\* completed, that observed the connect-success signal and that issued a
\* subscribe request for every topic confirmed when it started (all of its
\* snapshot); with topics confirmed it is never cleared before the gather is done.
C4_ClearedAfterResubscription ==
    [][(connect_task = "task" /\ connect_task' = "None") =>
          \E i \in DOMAIN loops :
              /\ loops' = RemoveAt(loops, i)
              /\ IF topics = <<>>
                 THEN \/ loops[i].pc = "woken"
                      \/ loops[i].pc = "reconnected" /\ connect_evt
                 ELSE /\ loops[i].pc = "gathered"
                      /\ loops[i].atStart \subseteq Range(loops[i].sent)
                      /\ loops[i].sent = loops[i].resub]_vars

\* a loop started with A and B confirmed has issued both subscribe requests
\* over the new socket (both are pending) and is about to clear connect_task
C4_Witness ==
    \E i \in DOMAIN loops :
        /\ loops[i].pc = "gathered"
        /\ loops[i].atStart = {"A", "B"}
        /\ Range(loops[i].sent) = {"A", "B"}
        /\ connect_task = "task"
        /\ sock = "open"
        /\ \A T \in {"A", "B"} : \E m \in Mids :
               m \in DOMAIN pending_acks /\ pending_acks[m] = T

\* C5: the initial transport connect and every transport reconnect attempt of
\* the reconnect loop is preceded by an endpoint resolution made since the
\* previous attempt.
C5_ResolvedBeforeEveryReconnect ==
    [][/\ \A ok \in BOOLEAN : ConnectAttempt(ok) => fresh
       /\ \A i \in DOMAIN loops, ok \in BOOLEAN : ReconnectAttempt(i, ok) => fresh]_vars

\* C6: a Timer never has more than one pending invocation: a second start
\* supersedes the run scheduled by the first.
C6_OnePendingInvocation == jobs.sleeping <= 1

\* C7: after Timer.cancel in the delay window the callback does not fire;
\* Timer.cancel with nothing scheduled changes nothing; Timer.cancel leaves a
\* callback that has begun alone.
C7_CancelSemantics ==
    [][/\ TimerFire => ~cancelled
       /\ TimerCancel => /\ jobs'.running = jobs.running
                         /\ jobs.sleeping = 0 => jobs' = jobs]_vars

\* C8: _on_message given a payload that does not decode raises nothing and
\* schedules no handler; given a payload that decodes it schedules every
\* update handler.
C8_MalformedDropped ==
    [][\A topic \in MsgTopics, payload \in Payloads :
          OnMessage(topic, payload) =>
              IF Malformed(payload)
              THEN delivery'.raised = "none" /\ delivery'.scheduled = <<>>
              ELSE /\ delivery'.raised = "none"
                   /\ Len(delivery'.scheduled) = Len(handlers["update"])]_vars

\* C9: subscribe records the returned id against the topic and touches no
\* other entry nor the confirmed list; the acknowledgment of a pending id puts
\* its topic in the confirmed list and removes that entry only, and a second
\* acknowledgment of the id changes nothing; the acknowledgment of an unknown
\* id changes neither the pending map nor the confirmed list.
C9_PendingBookkeeping ==
    /\ \A t \in Topics :
           LET mid == ClientSubscribeMid(last_mid)
               r == SubscribeOne(pending_acks, last_mid, t)
           IN /\ DOMAIN r.pa = DOMAIN pending_acks \cup {mid}
              /\ r.pa[mid] = t
              /\ \A m \in DOMAIN pending_acks \ {mid} : r.pa[m] = pending_acks[m]
    /\ \A mid \in Mids :
           LET r == Acknowledge(pending_acks, topics, mid)
           IN IF mid \in DOMAIN pending_acks
              THEN /\ Len(r.ts) = Len(topics) + 1
                   /\ SubSeq(r.ts, 1, Len(topics)) = topics
                   /\ r.ts[Len(r.ts)] = pending_acks[mid]
                   /\ DOMAIN r.pa = DOMAIN pending_acks \ {mid}
                   /\ \A m \in DOMAIN r.pa : r.pa[m] = pending_acks[m]
                   /\ Acknowledge(r.pa, r.ts, mid) = r
              ELSE r.pa = pending_acks /\ r.ts = topics

\* an id was handed out, acknowledged and consumed while another request is
\* still pending, and the socket is open for further acknowledgments
C9_Witness ==
    /\ sock = "open"
    /\ topics # <<>>
    /\ \E m \in 1..last_mid : m \notin DOMAIN pending_acks
    /\ \E m \in 1..last_mid : m \in DOMAIN pending_acks

\* C10: the connect signal is set exactly when the last of the transport's
\* connect-acknowledgments with success code and disconnect notifications was
\* a connect-acknowledgment.
C10_ConnectedIffAcknowledged == connect_evt <=> (acked = "connack_ok")

\* a disconnect notification taken on the user-initiated branch while
\* connected has cleared the signal
C10_Witness ==
    /\ acked = "drop_up"
    /\ disconnect_evt = "set"
    /\ ~connect_evt

\* ---- C11 ------------------------------------------------------------------
IsPrefix(s, t) == Len(s) <= Len(t) /\ \A k \in DOMAIN s : t[k] = s[k]

\* C11: the confirmed list only grows, and only by an acknowledgment of a
\* pending request, which appends that request's topic; no step (disconnect
\* notification, reconnect, failed connect, unmatched acknowledgment) removes
\* or replaces an element.
C11_TopicsOnlyGrowByAck ==
    [][/\ IsPrefix(topics, topics')
       /\ topics' # topics =>
            \E m \in Mids : /\ OnSubscribe(m)
                            /\ m \in DOMAIN pending_acks
                            /\ topics' = Append(topics, pending_acks[m])]_vars

\* a confirmed topic is still there after a drop, a failed reconnect attempt
\* and an acknowledgment nothing was pending for
C11_Witness ==
    /\ topics # <<>>
    /\ acked = "drop_up"
    /\ \E i \in DOMAIN loops : loops[i].pc = "backoff"
    /\ \E m \in 1..last_mid : m \notin DOMAIN pending_acks

\* ---- C12 ------------------------------------------------------------------
\* C12: each topic occurs at most once in the confirmed list.
C12_TopicsDeduplicated == \A T \in Topics : Count(topics, T) <= 1

\* ---- C13 ------------------------------------------------------------------
\* C13: after a disconnect notification the pending map holds no entry that
\* was created before it.
C13_PendingDiscardedOnDisconnect ==
    [][OnDisconnect => DOMAIN pending_acks' = {}]_vars

\* ---- C14 ------------------------------------------------------------------
\* C14: a connect-ack with a failure code leaves the connected status, the
\* timer jobs, the reconnect loops and connect_task as they were; a
\* disconnect notification taken while not connected and with no disconnect
\* signal leaves the reconnect loops and connect_task as they were.
C14_FailureStartsNothing ==
    [][/\ OnConnect(5, MaxJobs) =>
            /\ connect_evt' = connect_evt
            /\ jobs' = jobs
            /\ loops' = loops
            /\ connect_task' = connect_task
       /\ (OnDisconnect /\ ~is_connected /\ disconnect_evt = "None") =>
            /\ loops' = loops
            /\ connect_task' = connect_task
            /\ ~connect_evt']_vars

\* the connect-ack of the first connect was delivered with a failure code
\* (the socket is open, no ack is due, none was a success): nothing is
\* connected, scheduled or looping
C14_Witness ==
    /\ conn = "returned"
    /\ sock = "open"
    /\ ~connack
    /\ acked = "none"
    /\ ~connect_evt
    /\ jobs = [sleeping |-> 0, running |-> 0]
    /\ loops = <<>>
    /\ connect_task = "None"

\* ---- C15 ------------------------------------------------------------------
\* the exceptions get_mqtt_info raises itself (raise Exception(...))
ResolverErrors == {"Exception"}

\* C15: when the control-plane request fails or the url does not match, the
\* resolver ends by one of its own errors, connect() ends by that failure,
\* hands nothing to the transport and the connected status stays false.
C15_ResolveFailureSurfaced ==
    [][\A resp \in Responses \ {"wss_ok"} :
          ConnectResolved(resp) =>
             /\ get_mqtt_info(resp) \in ResolverErrors
             /\ conn' = "failed"
             /\ sock' = sock /\ connack' = connack
             /\ ~connect_evt']_vars

\* ---- C16 ------------------------------------------------------------------
\* C16: no target is registered twice in a category; registering a target
\* that is there leaves the registry as it is; a category outside
\* connect/disconnect/update leaves the registry as it is; a new target goes
\* behind the targets registered before it, whose order is kept, and the
\* other categories are untouched.
C16_RegistryIdempotentOrdered ==
    /\ \A c \in Categories, t \in Targets : Count(handlers[c], t) <= 1
    /\ \A type \in Categories \cup {"error"}, target \in Targets :
         LET r == add_event_handler(handlers, type, target)
         IN /\ add_event_handler(r, type, target) = r
            /\ type \notin Categories => r = handlers
            /\ type \in Categories =>
                 /\ \A c \in Categories \ {type} : r[c] = handlers[c]
                 /\ IsPrefix(handlers[type], r[type])
                 /\ Count(r[type], target) = 1
                 /\ target \in Range(handlers[type]) => r = handlers
                 /\ target \notin Range(handlers[type]) =>
                      /\ Len(r[type]) = Len(handlers[type]) + 1
                      /\ r[type][Len(r[type])] = target

\* two targets registered for updates, h2 before h1, and one for connects
C16_Witness ==
    /\ handlers["update"] = <<"h2", "h1">>
    /\ handlers["connect"] = <<"h1">>

\* ---- C17 ------------------------------------------------------------------
\* C17: a message whose payload decodes to JSON is scheduled, within the
\* callback and without awaiting anything, once for each registered update
\* handler in registration order, with the decoded data and with the device
\* id: the third segment of a topic that begins with
\* prd/app_subscriptions/, and None for every other topic.
C17_DispatchedOncePerHandler ==
    [][\A topic \in MsgTopics, payload \in Payloads :
          (OnMessage(topic, payload) /\ ~Malformed(payload)) =>
             /\ delivery'.raised = "none"
             /\ Len(delivery'.scheduled) = Len(handlers["update"])
             /\ \A h \in Range(handlers["update"]) :
                  Cardinality({k \in DOMAIN delivery'.scheduled :
                                  delivery'.scheduled[k][1] = h}) = 1
             /\ \A k \in DOMAIN delivery'.scheduled :
                  /\ delivery'.scheduled[k][1] = handlers["update"][k]
                  /\ delivery'.scheduled[k][3] = JsonLoads(payload)
                  /\ delivery'.scheduled[k][2] =
                       IF SubSeq(topic, 1, 2) = <<"prd", "app_subscriptions">> /\ Len(topic) > 2
                       THEN topic[3]
                       ELSE "None"]_vars

\* a valid message on a device topic went to both update handlers with the
\* device id
C17_Witness ==
    /\ Len(handlers["update"]) = 2
    /\ delivery.topic = <<"prd", "app_subscriptions", "dev123">>
    /\ Len(delivery.scheduled) = 2
    /\ delivery.scheduled[1][2] = "dev123"
    /\ delivery.scheduled[2][2] = "dev123"

\* ---- C18 ------------------------------------------------------------------
\* C18: the timer callback first awaits the resolver (the job is running
\* from TimerFire on); the step that takes the resolver's answer sets the
\* websocket options and asks the transport to disconnect when the answer
\* is an endpoint, and does neither when the resolver raised; a disconnect
\* is requested by no other step; the notification of the requested
\* disconnect, taken while connected, with no disconnect signal and no loop
\* in flight, creates the reconnect task exactly as an unrequested drop does.
C18_KeepaliveReconnect ==
    [][/\ \A resp \in Responses :
            ProcessReconnect(resp) =>
               /\ jobs.running > 0
               /\ IF get_mqtt_info(resp) = "ok"
                  THEN /\ host' = "host" /\ fresh'
                       /\ disc_req' = (sock = "open")
                  ELSE /\ host' = host /\ fresh' = fresh
                       /\ disc_req' = disc_req
               /\ sock' = sock /\ connect_evt' = connect_evt /\ loops' = loops
       /\ (disc_req' /\ ~disc_req) => (ProcessReconnect("wss_ok") /\ fresh')
       /\ (OnDisconnect /\ is_connected /\ disconnect_evt = "None"
             /\ connect_task = "None") =>
               /\ loops' = Append(loops, NewLoop)
               /\ connect_task' = "task"
               /\ ~connect_evt'
               /\ ~disc_req']_vars

\* the callback resolved the endpoint anew and asked for the disconnect of
\* the connected session; the notification is still to come
C18_Witness ==
    /\ disc_req
    /\ fresh
    /\ host = "host"
    /\ is_connected
    /\ sock = "open"
    /\ connect_task = "None"

\* ---- C19 ------------------------------------------------------------------
\* C19: a loop whose attempt was not acknowledged with success (it waits for
\* the connect signal and no acknowledgment is due any more: the connect-ack
\* carried a failure code, or the socket closed before it) leaves the wait
\* and goes on to the backoff step.
C19_UnacknowledgedAttemptRetried ==
    \A i \in 1..MaxLoops :
        (i \in DOMAIN loops /\ loops[i].pc = "wait_evt" /\ ~connack)
           ~> (i \in DOMAIN loops /\ loops[i].pc = "backoff")

\* ---- C20 ------------------------------------------------------------------
\* the reconnect task was cancelled: connect_task still refers to it and no
\* loop is left that could attempt a reconnect or send a subscribe
LoopAborted ==
    /\ connect_task = "task"
    /\ \A j \in DOMAIN loops : loops[j].pc = "abandoned"

\* C20: cancelling the reconnect task, wherever it is suspended (before its
\* first step, in the backoff sleep, in the offloaded reconnect, in the wait
\* for the connect signal, in the gather), ends it at once: the cancelling
\* step sends nothing and touches neither transport nor pending map, from
\* then on no loop step runs (no reconnect attempt is started, no subscribe
\* is sent by a loop), and a client.reconnect left running in the executor
\* only finishes, with no subscribe behind it.
C20_CancellationAborts ==
    [][/\ \A i \in DOMAIN loops :
            LoopCancel(i) =>
               /\ LoopAborted'
               /\ UNCHANGED <<sock, connack, last_mid, pending_acks, topics, connect_evt>>
       /\ LoopAborted =>
            /\ LoopAborted'
            /\ Len(loops') <= Len(loops)
            /\ pending_acks' # pending_acks =>
                 (Subscribe("A") \/ \E m \in Mids : OnSubscribe(m))
       /\ \A i \in DOMAIN loops, ok \in BOOLEAN :
            AbandonedReconnect(i, ok) =>
               UNCHANGED <<last_mid, pending_acks, topics>>]_vars

\* the task was cancelled while it had subscribe requests to send for a
\* confirmed topic: it is gone, connect_task still refers to it
C20_Witness ==
    /\ connect_task = "task"
    /\ loops = <<>>
    /\ topics # <<>>
    /\ connect_evt
    /\ sock = "open"

C22_KeepaliveFollowsSocket ==
    /\ sock = "closed" => jobs.sleeping = 0
    /\ jobs.sleeping + jobs.running <= 1

\* ---- C23 ------------------------------------------------------------------
\* C23: after an unexpected drop (the last thing the transport delivered is
\* the closure of a connected session, and no disconnect signal exists) the
\* session is not left disconnected with no reconnect loop in flight.
C23_DropLeavesLoopInFlight ==
    (acked = "drop_up" /\ disconnect_evt = "None" /\ ~is_connected) => loops # <<>>

\* ---- C24 ------------------------------------------------------------------
\* C24: connect_task refers to a task exactly while a reconnect loop is
\* running (a loop that was cancelled, with or without a reconnect call left
\* behind in the executor, is not running).
C24_MarkerIffLoopRunning ==
    (connect_task = "task") <=> (\E i \in DOMAIN loops : loops[i].pc # "abandoned")

====
